---- MODULE Spec2Model ----
(***************************************************************************)
(* Model of the BIM viewer backend (src/backend/app.py, src/backend/auth.py)*)
(*                                                                         *)
(* State: the three DynamoDB tables (projects, permissions, issues), the   *)
(* S3 bucket, the wall clock, and the requests in flight.  Every Flask     *)
(* handler is a sequence of steps, one step per call to a store; requests  *)
(* of different slots interleave between steps, as Flask serves them from  *)
(* parallel threads with no locking.                                       *)
(*                                                                         *)
(* External collaborators are modelled by their contract: a table scan or  *)
(* query sees the whole table as it is at that moment, a single put,       *)
(* update or delete is atomic, and every call may fail (ClientError).      *)
(* The clock is read for createdAt and updatedAt; it does not advance in   *)
(* the runs explored here, so all timestamps are equal.                    *)
(***************************************************************************)
EXTENDS Integers, Sequences, FiniteSets, TLC

VARIABLES projects, permissions, issues, objects, issuedIds, deleted, now, reqs, scope

vars == <<projects, permissions, issues, objects, issuedIds, deleted, now, reqs, scope>>

stores == <<projects, permissions, issues, objects>>

-----------------------------------------------------------------------------
(* Bounds of the exploration.  The variable scope holds what the clients   *)
(* and the environment may do in a run (it never changes): how many rows  *)
(* may be created, which request bodies are sent, how many requests are   *)
(* served at a time, and whether calls to the stores may fail.            *)

MaxProjects == 2

MaxIssues == 1

\* readings of the clock, where it runs
MaxClock == 3

Slots == {1, 2}

Subjects == {"A", "B", "C"}

\* the subjects that create projects
Creators == {"A", "C"}

ProjectIds == scope.projectIds

IssueIds == 1..scope.maxIssues

\* the outcomes of a call to a store or to the identity provider
Outcomes == IF scope.faults THEN BOOLEAN ELSE {TRUE}

-----------------------------------------------------------------------------
(* Small helpers *)

Has(f, k) == k \in DOMAIN f

Get(f, k, default) == IF k \in DOMAIN f THEN f[k] ELSE default

Range(s) == {s[i] : i \in DOMAIN s}

Orderings(S) == {s \in [1..Cardinality(S) -> S] : Range(s) = S}

RECURSIVE SelectSeqBy(_, _)
SelectSeqBy(s, S) ==
  IF s = <<>> THEN <<>>
  ELSE IF Head(s) \in S THEN <<Head(s)>> \o SelectSeqBy(Tail(s), S)
       ELSE SelectSeqBy(Tail(s), S)

-----------------------------------------------------------------------------
(* Text: a string is a sequence of characters, so that strip() and the     *)
(* file extension test are computed, not assumed.                          *)

Blank == {" "}

RECURSIVE LStrip(_)
LStrip(s) == IF s # <<>> /\ Head(s) \in Blank THEN LStrip(Tail(s)) ELSE s

RECURSIVE RStrip(_)
RStrip(s) ==
  IF s # <<>> /\ s[Len(s)] \in Blank THEN RStrip(SubSeq(s, 1, Len(s) - 1)) ELSE s

Strip(s) == RStrip(LStrip(s))

Lower(c) ==
  CASE c = "G" -> "g" [] c = "L" -> "l" [] c = "B" -> "b" [] OTHER -> c

LowerText(s) == [i \in DOMAIN s |-> Lower(s[i])]

\* filename.rsplit('.', 1)[1]: what follows the last dot
RECURSIVE AfterLastDot(_)
AfterLastDot(s) ==
  IF \E i \in DOMAIN s : s[i] = "."
  THEN AfterLastDot(Tail(s))
  ELSE s

ALLOWED_EXTENSIONS == {<<"g", "l", "b">>}

allowed_file(filename) ==
  /\ \E i \in DOMAIN filename : filename[i] = "."
  /\ LowerText(AfterLastDot(filename)) \in ALLOWED_EXTENSIONS

-----------------------------------------------------------------------------
(* The identity provider *)

\* admin_get_user(Username = email): the 'sub' of the account, if any
Directory == [e \in {"a@x.com", "b@x.com"} |-> IF e = "a@x.com" THEN "A" ELSE "B"]

Emails == {"a@x.com", "b@x.com", "ghost@x.com"}

\* check_user_exists: <<exists, user_sub, error>>
check_user_exists(email, cognito_ok) ==
  IF ~cognito_ok THEN <<FALSE, "", "Error checking user">>
  ELSE IF email \in DOMAIN Directory THEN <<TRUE, Directory[email], "">>
  ELSE <<FALSE, "", "User has not created an account">>

\* token_required: the status a request without a valid credential gets
BadTokens == {"missing", "expired", "bad_claims", "malformed"}

\* every kind of credential a request can carry: no Bearer header, a string
\* that is not a JWT, a JWT whose kid is not in the JWKS, a JWT whose
\* signature does not verify, an expired one, one with a wrong audience or
\* issuer, and a valid one
Tokens == BadTokens \cup {"unknown_kid", "bad_signature", "valid"}

\* token_required with the JWKS loaded (keys non-empty)
TokenFailure(token) ==
  CASE token = "missing" -> 401
    [] token = "expired" -> 401
    [] token = "bad_claims" -> 401
    [] OTHER -> 500

\* token_required: the status it answers by itself, 0 when it calls the handler
token_required(token, keys) ==
  IF token = "missing" THEN 401
  ELSE IF ~keys THEN 500
  ELSE IF token = "valid" THEN 0
  ELSE TokenFailure(token)

-----------------------------------------------------------------------------
(* Requests *)

Nil == [nil |-> TRUE]

Idle == [op |-> "idle", pc |-> "idle", args |-> Nil, loc |-> Nil,
         code |-> 0, msg |-> "", body |-> <<>>, writes |-> <<>>, before |-> <<>>,
         failed |-> FALSE]

\* one request at a time: no two requests overlap
Sequential == Cardinality(scope.slots) = 1

\* A request records what it wrote, and (when requests do not overlap) the
\* stores as it found them: both are history, no handler reads them.
NewRequest(op, args) ==
  [Idle EXCEPT !.op = op, !.args = args,
               !.before = IF Sequential THEN <<stores>> ELSE <<>>]

Busy(r) == reqs[r].pc \notin {"idle", "done"}

\* A finished request holds its response until Return; delivering it changes
\* nothing another request can see, so it is delivered before the next step.
Quiet == \A q \in Slots : reqs[q].pc # "done"

\* slots are interchangeable: a new request takes the first free one
Free(r) ==
  /\ Quiet
  /\ r \in scope.slots
  /\ reqs[r].pc = "idle"
  /\ \A q \in Slots : q < r => reqs[q].pc # "idle"

\* token_required calls the handler (auth.py 81): the credential is valid and
\* the JWKS was loaded
Authenticated(r) == Free(r) /\ token_required("valid", scope.keys) = 0

At(r, op, pc) == Quiet /\ reqs[r].op = op /\ reqs[r].pc = pc

\* the response: status code, message, payload (a list of rows)
Respond(q, code, msg, body) ==
  [q EXCEPT !.pc = "done", !.code = code, !.msg = msg, !.body = body]

Goto(q, pc, loc) == [q EXCEPT !.pc = pc, !.loc = loc]

Wrote(q, what) == [q EXCEPT !.writes = Append(@, what)]

\* history: the rows that a write of the request replaced
Replaced(q, prior) == [q EXCEPT !.loc = [k \in DOMAIN @ \cup {"prior"} |->
                                          IF k = "prior" THEN prior ELSE @[k]]]

\* history: the projects for which generate_presigned_url returned None
Unlinked(q, none) == [q EXCEPT !.loc = [k \in DOMAIN @ \cup {"no_link"} |->
                                         IF k = "no_link" THEN none ELSE @[k]]]

\* history: a call of the request to a table raised (ok is how the call went)
Called(q, ok) == [q EXCEPT !.failed = @ \/ ~ok]

Set(r, q) == reqs' = [reqs EXCEPT ![r] = q]

-----------------------------------------------------------------------------
(* Access control *)

PermissionRows(project_id, user_sub) ==
  {p \in permissions : p.projectId = project_id /\ p.userId = user_sub}

\* a variant that asks for a Permission row on any project at all
any_project_access(user_sub, project_id, scan_ok) ==
  scan_ok /\ \E p \in permissions : p.userId = user_sub

\* a variant that asks for a Permission row with the role of owner
owner_has_project_access(user_sub, project_id, scan_ok) ==
  scan_ok /\ \E p \in PermissionRows(project_id, user_sub) : p.role = "owner"

\* user_has_project_access: a failed scan counts as no access
user_has_project_access(user_sub, project_id, scan_ok) ==
  scan_ok /\ PermissionRows(project_id, user_sub) # {}

\* str(uuid.uuid4()) for a Permission: an id no other row has
NewPermissionId(project_id, user_sub) ==
  <<project_id, user_sub, Cardinality(PermissionRows(project_id, user_sub)) + 1>>

ProjectItem(project_id) == {p \in projects : p.projectId = project_id}

\* a variant that asks for a Permission row instead of the ownerId
is_member(user_sub, project_id) ==
  PermissionRows(project_id, user_sub) # {}

\* a variant that lets anyone invite, to any project id
owner_unchecked(user_sub, project_id) == TRUE

\* the owner check of invite: the project exists and its ownerId is the caller
is_owner(user_sub, project_id) ==
  \E p \in ProjectItem(project_id) : p.ownerId = user_sub

-----------------------------------------------------------------------------
\* datetime.now(timezone.utc): where the clock runs (scope.maxClock bounds it)
\* no two readings are equal, each is later than the one before; where it
\* does not run every reading is the same
ReadClock ==
  IF scope.maxClock = 0 THEN UNCHANGED now
  ELSE now < scope.maxClock /\ now' = now + 1

\* the tables and the bucket as they are created: empty
EmptyStore ==
  /\ projects = {}
  /\ permissions = {}
  /\ issues = {}
  /\ objects = {}
  /\ issuedIds = {}
  /\ deleted = {}
  /\ now = 0
  /\ reqs = [r \in Slots |-> Idle]

\* the response has been sent: the slot is free again
Return(r) ==
  /\ reqs[r].pc = "done"
  /\ Set(r, Idle)
  /\ UNCHANGED <<scope, deleted, projects, permissions, issues, objects, issuedIds, now>>

\* token_required answers by itself when the credential is not valid; the
\* handler is never entered and no store is read, so the step is independent
\* of every other request and is taken when none is in flight.
Unauthenticated(r) ==
  /\ Free(r)
  /\ \A q \in Slots : ~Busy(q)
  /\ \E op \in {"create_project", "get_projects", "get_project", "invite",
                "create_issue", "update_issue", "delete_issue",
                "get_all_issues", "debug_all_issues"}, token \in scope.tokens :
       /\ token_required(token, scope.keys) # 0
       /\ Set(r, Respond(NewRequest(op, Nil), token_required(token, scope.keys),
                         token, <<>>))
  /\ UNCHANGED <<scope, deleted, projects, permissions, issues, objects, issuedIds, now>>

-----------------------------------------------------------------------------
(* POST /api/projects *)

Filenames == {<<>>, <<"m">>, <<"m", ".", "g", "l", "b">>,
              <<"m", ".", "G", "L", "B">>, <<"m", ".", "e", "x", "e">>}

ProjectForms ==
  [hasModel : BOOLEAN, hasName : BOOLEAN, filename : Filenames, projectName : {"Tower"}]

\* every upload takes a fresh key, and every project an uploaded object
UploadsPending == Cardinality({q \in Slots : reqs[q].op = "create_project" /\ reqs[q].pc = "upload"})

\* validation of the multipart form; then the wait for the upload
CreateProjectStart(r) ==
  /\ Authenticated(r)
  /\ Cardinality(objects) + UploadsPending < scope.maxProjects
  /\ \E sub \in scope.creators, form \in ProjectForms :
       LET q == NewRequest("create_project", [sub |-> sub]) IN
       IF ~form.hasModel \/ ~form.hasName
       THEN Set(r, Respond(q, 400, "Request must include 'model' file and 'projectName' form field", <<>>))
       ELSE IF form.filename = <<>> \/ ~allowed_file(form.filename)
       THEN Set(r, Respond(q, 400, "Invalid or no file selected", <<>>))
       ELSE Set(r, Goto(NewRequest("create_project",
                                   [sub |-> sub, projectName |-> form.projectName]),
                        "upload", Nil))
  /\ UNCHANGED <<scope, deleted, projects, permissions, issues, objects, issuedIds, now>>

\* a variant that goes on to the project record when the upload failed
CreateProjectUploadIgnored(r) ==
  /\ At(r, "create_project", "upload")
  /\ \E s3_ok \in Outcomes :
       LET key == Cardinality(objects) + 1 IN
       /\ objects' = IF s3_ok THEN objects \cup {key} ELSE objects
       /\ Set(r, Goto(IF s3_ok THEN Wrote(reqs[r], "object") ELSE reqs[r], "put_project",
                      [modelKey |-> key, createdAt |-> now]))
  /\ UNCHANGED <<scope, deleted, projects, permissions, issues, issuedIds, now>>

\* s3_client.upload_fileobj under a fresh key; then project_id and created_at
CreateProjectUpload(r) ==
  /\ At(r, "create_project", "upload")
  /\ \E s3_ok \in Outcomes :
       IF ~s3_ok
       THEN /\ Set(r, Respond(reqs[r], 500, "Failed to upload model", <<>>))
            /\ UNCHANGED <<objects, now>>
       ELSE LET key == Cardinality(objects) + 1 IN
            /\ objects' = objects \cup {key}
            /\ ReadClock
            /\ Set(r, Goto(Wrote(reqs[r], "object"), "put_project",
                           [modelKey |-> key, createdAt |-> now]))
  /\ UNCHANGED <<scope, deleted, projects, permissions, issues, issuedIds>>

\* projects_table.put_item(Item=project)
CreateProjectPutProject(r) ==
  /\ At(r, "create_project", "put_project")
  /\ \E db_ok \in Outcomes :
       IF ~db_ok
       THEN /\ Set(r, Respond(Called(reqs[r], FALSE), 500, "Failed to create project records", <<>>))
            /\ UNCHANGED projects
       ELSE LET project == [projectId |-> Cardinality(projects) + 1,
                            projectName |-> reqs[r].args.projectName,
                            modelKey |-> reqs[r].loc.modelKey,
                            ownerId |-> reqs[r].args.sub,
                            createdAt |-> reqs[r].loc.createdAt] IN
            /\ projects' = projects \cup {project}
            /\ Set(r, Goto(Wrote(reqs[r], "project"), "put_permission",
                           [project |-> project]))
  /\ UNCHANGED <<scope, deleted, permissions, issues, objects, issuedIds, now>>

\* a variant that takes the project record back when the permission fails
CreateProjectPutPermissionRollback(r) ==
  /\ At(r, "create_project", "put_permission")
  /\ \E db_ok \in Outcomes :
       IF ~db_ok
       THEN /\ Set(r, Respond(Called(reqs[r], FALSE), 500, "Failed to create project records", <<>>))
            /\ projects' = projects \ {reqs[r].loc.project}
            /\ UNCHANGED permissions
       ELSE LET permission == [permissionId |-> NewPermissionId(reqs[r].loc.project.projectId, reqs[r].args.sub),
                               projectId |-> reqs[r].loc.project.projectId,
                               userId |-> reqs[r].args.sub,
                               role |-> "owner"] IN
            /\ permissions' = permissions \cup {permission}
            /\ UNCHANGED projects
            /\ Set(r, Respond(Wrote(reqs[r], "permission"), 201, "",
                              <<reqs[r].loc.project>>))
  /\ UNCHANGED <<scope, deleted, issues, objects, issuedIds, now>>

\* permissions_table.put_item(Item=permission); no rollback when it fails
CreateProjectPutPermission(r) ==
  /\ At(r, "create_project", "put_permission")
  /\ \E db_ok \in Outcomes :
       IF ~db_ok
       THEN /\ Set(r, Respond(Called(reqs[r], FALSE), 500, "Failed to create project records", <<>>))
            /\ UNCHANGED permissions
       ELSE LET permission == [permissionId |-> NewPermissionId(reqs[r].loc.project.projectId, reqs[r].args.sub),
                               projectId |-> reqs[r].loc.project.projectId,
                               userId |-> reqs[r].args.sub,
                               role |-> "owner"] IN
            /\ permissions' = permissions \cup {permission}
            /\ Set(r, Respond(Wrote(reqs[r], "permission"), 201, "",
                              <<reqs[r].loc.project>>))
  /\ UNCHANGED <<scope, deleted, projects, issues, objects, issuedIds, now>>

-----------------------------------------------------------------------------
(* POST /api/projects/<project_id>/invite *)

InviteBodies == {[e \in {} |-> ""]} \cup {[email |-> e] : e \in scope.emails}

\* a variant that looks the account up before it checks the owner
InviteStartLookupFirst(r) ==
  /\ Authenticated(r)
  /\ \E sub \in Subjects, project_id \in ProjectIds, data \in InviteBodies,
        db_ok \in Outcomes, cognito_ok \in Outcomes :
       LET q == NewRequest("invite", [sub |-> sub, project_id |-> project_id, data |-> data])
           found == IF Has(data, "email") THEN check_user_exists(data.email, cognito_ok)
                    ELSE <<FALSE, "", "">> IN
       IF ~db_ok
       THEN Set(r, Respond(Called(q, FALSE), 500, "Database error", <<>>))
       ELSE IF ~Has(data, "email")
       THEN Set(r, Respond(q, 400, "Email of the user to invite is required", <<>>))
       ELSE IF found[3] = "User has not created an account"
       THEN Set(r, Respond(q, 404, "has not created an account yet", <<>>))
       ELSE IF found[3] # ""
       THEN Set(r, Respond(q, 500, "Error checking user", <<>>))
       ELSE IF ~found[1] \/ found[2] = ""
       THEN Set(r, Respond(q, 404, "not found", <<>>))
       ELSE IF ~is_owner(sub, project_id)
       THEN Set(r, Respond(q, 403, "Not authorized to share this project", <<>>))
       ELSE Set(r, Goto(q, "scan_permission", [invitee_sub |-> found[2]]))
  /\ UNCHANGED <<scope, deleted, projects, permissions, issues, objects, issuedIds, now>>

\* 1. owner check, 2. the email of the body, 3. the account behind the email
InviteStart(r) ==
  /\ Authenticated(r)
  /\ \E sub \in Subjects, project_id \in ProjectIds, data \in InviteBodies,
        db_ok \in Outcomes, cognito_ok \in Outcomes :
       LET q == NewRequest("invite", [sub |-> sub, project_id |-> project_id, data |-> data])
           found == IF Has(data, "email") THEN check_user_exists(data.email, cognito_ok)
                    ELSE <<FALSE, "", "">> IN
       IF ~db_ok
       THEN Set(r, Respond(Called(q, FALSE), 500, "Database error", <<>>))
       ELSE IF ~is_owner(sub, project_id)
       THEN Set(r, Respond(q, 403, "Not authorized to share this project", <<>>))
       ELSE IF ~Has(data, "email")
       THEN Set(r, Respond(q, 400, "Email of the user to invite is required", <<>>))
       ELSE IF found[3] = "User has not created an account"
       THEN Set(r, Respond(q, 404, "has not created an account yet", <<>>))
       ELSE IF found[3] # ""
       THEN Set(r, Respond(q, 500, "Error checking user", <<>>))
       ELSE IF ~found[1] \/ found[2] = ""
       THEN Set(r, Respond(q, 404, "not found", <<>>))
       ELSE Set(r, Goto(q, "scan_permission", [invitee_sub |-> found[2]]))
  /\ UNCHANGED <<scope, deleted, projects, permissions, issues, objects, issuedIds, now>>

\* a variant without the scan for an existing row (as in ed.py)
InviteScanSkipped(r) ==
  /\ At(r, "invite", "scan_permission")
  /\ Set(r, Goto(reqs[r], "put_permission", reqs[r].loc))
  /\ UNCHANGED <<scope, deleted, projects, permissions, issues, objects, issuedIds, now>>

\* a variant that writes the row first and looks for an earlier one after
InviteScanAfterPut(r) ==
  /\ At(r, "invite", "scan_permission")
  /\ LET project_id == reqs[r].args.project_id
         invitee_sub == reqs[r].loc.invitee_sub
         permission == [permissionId |-> NewPermissionId(project_id, invitee_sub),
                        projectId |-> project_id,
                        userId |-> invitee_sub,
                        role |-> "collaborator"] IN
     /\ permissions' = permissions \cup {permission}
     /\ IF PermissionRows(project_id, invitee_sub) # {}
        THEN Set(r, Respond(Wrote(reqs[r], "permission"), 400, "is already invited to this project", <<>>))
        ELSE Set(r, Respond(Wrote(reqs[r], "permission"), 200, "Successfully invited", <<>>))
  /\ UNCHANGED <<scope, deleted, projects, issues, objects, issuedIds, now>>

\* 4. the scan for a Permission row of the invitee
InviteScan(r) ==
  /\ At(r, "invite", "scan_permission")
  /\ \E db_ok \in Outcomes :
       IF ~db_ok
       THEN Set(r, Respond(Called(reqs[r], FALSE), 500, "Database error", <<>>))
       ELSE IF PermissionRows(reqs[r].args.project_id, reqs[r].loc.invitee_sub) # {}
       THEN Set(r, Respond(reqs[r], 400, "is already invited to this project", <<>>))
       ELSE Set(r, Goto(reqs[r], "put_permission", reqs[r].loc))
  /\ UNCHANGED <<scope, deleted, projects, permissions, issues, objects, issuedIds, now>>

\* a variant whose table keeps one row a user: the new row takes the place
\* of the rows the invitee has
InvitePutReplacing(r) ==
  /\ At(r, "invite", "put_permission")
  /\ LET permission == [permissionId |-> NewPermissionId(reqs[r].args.project_id, reqs[r].loc.invitee_sub),
                        projectId |-> reqs[r].args.project_id,
                        userId |-> reqs[r].loc.invitee_sub,
                        role |-> "collaborator"] IN
     /\ permissions' = {p \in permissions : p.userId # permission.userId} \cup {permission}
     /\ Set(r, Respond(Wrote(reqs[r], "permission"), 200, "Successfully invited", <<>>))
  /\ UNCHANGED <<scope, deleted, projects, issues, objects, issuedIds, now>>

\* 5. permissions_table.put_item(Item=permission)
InvitePut(r) ==
  /\ At(r, "invite", "put_permission")
  /\ \E db_ok \in Outcomes :
       IF ~db_ok
       THEN /\ Set(r, Respond(Called(reqs[r], FALSE), 500, "Failed to save permission", <<>>))
            /\ UNCHANGED permissions
       ELSE LET permission == [permissionId |-> NewPermissionId(reqs[r].args.project_id, reqs[r].loc.invitee_sub),
                               projectId |-> reqs[r].args.project_id,
                               userId |-> reqs[r].loc.invitee_sub,
                               role |-> "collaborator"] IN
            /\ permissions' = permissions \cup {permission}
            /\ Set(r, Respond(Wrote(reqs[r], "permission"), 200, "Successfully invited", <<>>))
  /\ UNCHANGED <<scope, deleted, projects, issues, objects, issuedIds, now>>

-----------------------------------------------------------------------------
(* Listing helpers *)

\* sortKey = "ISSUE#" + id + "#" + createdAt: compared as text, so by id first
SortKeyLess(a, b) == a[1] < b[1] \/ (a[1] = b[1] /\ a[2] < b[2])

\* query(ScanIndexForward=False): the rows of a partition by sortKey descending
RECURSIVE QueryDescending(_)
QueryDescending(rows) ==
  IF rows = {} THEN <<>>
  ELSE LET top == CHOOSE x \in rows : \A y \in rows : ~SortKeyLess(x.sortKey, y.sortKey)
       IN <<top>> \o QueryDescending(rows \ {top})

CreatedAtOf(row) == Get(row, "createdAt", -1)

\* list.sort(key=createdAt, reverse=True) is stable: rows of equal key keep their order
RECURSIVE InsertByCreatedAt(_, _)
InsertByCreatedAt(x, s) ==
  IF s = <<>> THEN <<x>>
  ELSE IF CreatedAtOf(Head(s)) >= CreatedAtOf(x)
       THEN <<Head(s)>> \o InsertByCreatedAt(x, Tail(s))
       ELSE <<x>> \o s

\* a variant that leaves the rows in the order of the query
AsQueried(s) == s

RECURSIVE SortByCreatedAtDesc(_)
SortByCreatedAtDesc(s) ==
  IF s = <<>> THEN <<>>
  ELSE InsertByCreatedAt(s[Len(s)], SortByCreatedAtDesc(SubSeq(s, 1, Len(s) - 1)))

RECURSIVE FilterSeq(_, _, _)
FilterSeq(s, field, value) ==
  IF s = <<>> THEN <<>>
  ELSE IF Has(Head(s), field) /\ Head(s)[field] = value
       THEN <<Head(s)>> \o FilterSeq(Tail(s), field, value)
       ELSE FilterSeq(Tail(s), field, value)

-----------------------------------------------------------------------------
(* GET /api/projects/<project_id> *)

\* a variant that tells a project that exists from one that does not
GetProjectStartForbidden(r) ==
  /\ Authenticated(r)
  /\ \E sub \in Subjects, project_id \in ProjectIds, scan_ok \in Outcomes :
       LET q == NewRequest("get_project", [sub |-> sub, project_id |-> project_id]) IN
       IF ~user_has_project_access(sub, project_id, scan_ok)
       THEN IF ProjectItem(project_id) # {}
            THEN Set(r, Respond(q, 403, "Access denied", <<>>))
            ELSE Set(r, Respond(q, 404, "Project not found or access denied", <<>>))
       ELSE Set(r, Goto(q, "get_item", Nil))
  /\ UNCHANGED <<scope, deleted, projects, permissions, issues, objects, issuedIds, now>>

\* the access check; a subject without a Permission row is told "not found"
GetProjectStart(r) ==
  /\ Authenticated(r)
  /\ \E sub \in Subjects, project_id \in ProjectIds, scan_ok \in Outcomes :
       LET q == NewRequest("get_project", [sub |-> sub, project_id |-> project_id]) IN
       IF ~user_has_project_access(sub, project_id, scan_ok)
       THEN Set(r, Respond(Called(q, scan_ok), 404, "Project not found or access denied", <<>>))
       ELSE Set(r, Goto(q, "get_item", Nil))
  /\ UNCHANGED <<scope, deleted, projects, permissions, issues, objects, issuedIds, now>>

\* project['modelUrl'] = presigned_url: the link to the object under the key
WithModelUrl(project) ==
  [x \in DOMAIN project \cup {"modelUrl"} |->
     IF x = "modelUrl" THEN <<"url", project.modelKey>> ELSE project[x]]

\* a variant that answers like the list: a project without its link
GetProjectItemLenient(r) ==
  /\ At(r, "get_project", "get_item")
  /\ \E db_ok \in Outcomes, s3_ok \in Outcomes :
       LET item == ProjectItem(reqs[r].args.project_id) IN
       IF ~db_ok
       THEN Set(r, Respond(Called(reqs[r], FALSE), 500, "Database error occurred", <<>>))
       ELSE IF item = {}
       THEN Set(r, Respond(reqs[r], 404, "Project not found", <<>>))
       ELSE IF \E p \in item : ~s3_ok \/ p.modelKey \notin objects
       THEN Set(r, Respond(Unlinked(reqs[r], item), 200, "", <<CHOOSE p \in item : TRUE>>))
       ELSE Set(r, Respond(reqs[r], 200, "", <<WithModelUrl(CHOOSE p \in item : TRUE)>>))
  /\ UNCHANGED <<scope, deleted, projects, permissions, issues, objects, issuedIds, now>>

\* projects_table.get_item, then the presigned URL (head_object first)
GetProjectItem(r) ==
  /\ At(r, "get_project", "get_item")
  /\ \E db_ok \in Outcomes, s3_ok \in Outcomes :
       LET item == ProjectItem(reqs[r].args.project_id) IN
       IF ~db_ok
       THEN Set(r, Respond(Called(reqs[r], FALSE), 500, "Database error occurred", <<>>))
       ELSE IF item = {}
       THEN Set(r, Respond(reqs[r], 404, "Project not found", <<>>))
       ELSE IF \E p \in item : ~s3_ok \/ p.modelKey \notin objects
       THEN Set(r, Respond(Unlinked(reqs[r], item), 500,
                           "Could not generate access URL for model", <<>>))
       ELSE Set(r, Respond(reqs[r], 200, "", <<WithModelUrl(CHOOSE p \in item : TRUE)>>))
  /\ UNCHANGED <<scope, deleted, projects, permissions, issues, objects, issuedIds, now>>

-----------------------------------------------------------------------------
(* GET /api/projects *)

\* the scan of the caller's Permission rows: one project id per row
GetProjectsStart(r) ==
  /\ Authenticated(r)
  /\ \E sub \in Subjects, db_ok \in Outcomes :
       LET q == NewRequest("get_projects", [sub |-> sub])
           rows == {p \in permissions : p.userId = sub} IN
       IF ~db_ok
       THEN Set(r, Respond(Called(q, FALSE), 500, "Could not retrieve projects", <<>>))
       ELSE IF rows = {}
       THEN Set(r, Respond(q, 200, "", <<>>))
       ELSE \E order \in Orderings(rows) :
              Set(r, Goto(q, "batch_get",
                          [project_ids |-> [i \in DOMAIN order |-> order[i].projectId]]))
  /\ UNCHANGED <<scope, deleted, projects, permissions, issues, objects, issuedIds, now>>

\* batch_get_item (it rejects a key given twice), the presigned URL of each
\* project (one that gets none is skipped), the sort by createdAt
GetProjectsBatch(r) ==
  /\ At(r, "get_projects", "batch_get")
  /\ LET ids == reqs[r].loc.project_ids
         found == {p \in projects : p.projectId \in Range(ids)} IN
     \E db_ok \in Outcomes, order \in Orderings(found),
        no_url \in (IF scope.faults THEN SUBSET found ELSE {{}}) :
       IF ~db_ok \/ Cardinality(Range(ids)) # Len(ids)
       THEN Set(r, Respond(Called(reqs[r], db_ok), 500, "Could not retrieve projects", <<>>))
       ELSE LET valid == {p \in found : p \notin no_url /\ p.modelKey \in objects}
                sorted_projects == SortByCreatedAtDesc(SelectSeqBy(order, valid)) IN
            Set(r, Respond(Unlinked(reqs[r], found \ valid), 200, "",
                           [i \in DOMAIN sorted_projects |->
                              WithModelUrl(sorted_projects[i])]))
  /\ UNCHANGED <<scope, deleted, projects, permissions, issues, objects, issuedIds, now>>

-----------------------------------------------------------------------------
(* Issues *)

PRIORITIES == {"low", "medium", "high"}

STATUSES == {"open", "in-progress", "resolved"}

With(f, k, v) == [x \in DOMAIN f \cup {k} |-> IF x = k THEN v ELSE f[x]]

Without(f, k) == [x \in DOMAIN f \ {k} |-> f[x]]

\* a variant that takes a field of blanks for a field with a value, and any
\* priority for a priority
validate_presence(data) ==
  IF \E f \in {"title", "description", "objectId", "author"} : ~Has(data, f) \/ data[f] = <<>>
  THEN "Missing or empty field"
  ELSE IF Has(data, "status") /\ data.status \notin {"open", "in-progress", "resolved"}
  THEN "Status must be 'open', 'in-progress', or 'resolved'"
  ELSE ""

\* validate_issue_data: "" when the data is valid, the error message otherwise
validate_issue_data(data) ==
  IF ~Has(data, "title") \/ Strip(data.title) = <<>> THEN "Missing or empty field: title"
  ELSE IF ~Has(data, "description") \/ Strip(data.description) = <<>>
  THEN "Missing or empty field: description"
  ELSE IF ~Has(data, "objectId") \/ Strip(data.objectId) = <<>>
  THEN "Missing or empty field: objectId"
  ELSE IF ~Has(data, "author") \/ Strip(data.author) = <<>>
  THEN "Missing or empty field: author"
  ELSE IF Has(data, "priority") /\ data.priority \notin PRIORITIES
  THEN "Priority must be 'low', 'medium', or 'high'"
  ELSE IF Has(data, "status") /\ data.status \notin STATUSES
  THEN "Status must be 'open', 'in-progress', or 'resolved'"
  ELSE ""

IssueKey(row) == <<row.projectId, row.sortKey>>

\* put_item: the row replaces the row of the same key, if any
PutIssue(table, row) == {i \in table : IssueKey(i) # IssueKey(row)} \cup {row}

\* scan(FilterExpression = Attr('id').eq(issue_id))
IssuesById(issue_id) == {i \in issues : Has(i, "id") /\ i.id = issue_id}

ValidIssue(project_id) ==
  [title |-> <<"c">>, description |-> <<"d">>, objectId |-> <<"w">>,
   author |-> <<"a">>, projectId |-> project_id]

\* the JSON bodies of POST /api/issues
IssueBodies(pids) ==
  {[e \in {} |-> ""]} \cup
  UNION {{ValidIssue(p),
          With(ValidIssue(p), "title", <<" ", "c", " ">>),
          With(ValidIssue(p), "title", <<" ">>),
          Without(ValidIssue(p), "author"),
          With(ValidIssue(p), "priority", "high"),
          With(ValidIssue(p), "priority", "urgent"),
          With(ValidIssue(p), "status", "bogus")} : p \in pids}

\* POST /api/issues: the fields, the access check, the validation
CreateIssueStart(r) ==
  /\ Authenticated(r)
  /\ \E sub \in Subjects, data \in scope.issueBodies, scan_ok \in Outcomes,
        issue_id \in IssueIds \ issuedIds :
       LET q == NewRequest("create_issue", [sub |-> sub, project_id |-> Get(data, "projectId", 0),
                                            data |-> data])
           created_at == now IN
       IF \E f \in {"title", "description", "objectId", "author", "projectId"} : ~Has(data, f)
       THEN /\ Set(r, Respond(q, 400, "Missing required fields", <<>>))
            /\ UNCHANGED <<issuedIds, now>>
       ELSE IF ~user_has_project_access(sub, data.projectId, scan_ok)
       THEN /\ Set(r, Respond(Called(q, scan_ok), 403, "Access denied to this project", <<>>))
            /\ UNCHANGED <<issuedIds, now>>
       ELSE IF validate_issue_data(data) # ""
       THEN /\ Set(r, Respond(q, 400, validate_issue_data(data), <<>>))
            /\ UNCHANGED <<issuedIds, now>>
       ELSE /\ issuedIds' = issuedIds \cup {issue_id}
            /\ ReadClock
            /\ Set(r, Goto(q, "put_item",
                 [issue |-> [projectId |-> data.projectId,
                             sortKey |-> <<issue_id, created_at>>,
                             id |-> issue_id,
                             objectId |-> data.objectId,
                             title |-> Strip(data.title),
                             description |-> Strip(data.description),
                             author |-> Strip(data.author),
                             priority |-> Get(data, "priority", "medium"),
                             status |-> Get(data, "status", "open"),
                             createdAt |-> created_at,
                             updatedAt |-> created_at,
                             owner_sub |-> sub]]))
  /\ UNCHANGED <<scope, deleted, projects, permissions, issues, objects>>

\* issues_table.put_item(Item=issue)
CreateIssuePut(r) ==
  /\ At(r, "create_issue", "put_item")
  /\ \E db_ok \in Outcomes :
       IF ~db_ok
       THEN /\ Set(r, Respond(Called(reqs[r], FALSE), 500, "Database error occurred", <<>>))
            /\ UNCHANGED issues
       ELSE /\ issues' = PutIssue(issues, reqs[r].loc.issue)
            /\ Set(r, Respond(Wrote(reqs[r], "issue"), 201, "", <<reqs[r].loc.issue>>))
  /\ UNCHANGED <<scope, deleted, projects, permissions, objects, issuedIds, now>>

\* the JSON bodies of PUT /api/issues/<issue_id>
UpdateBodies ==
  {[e \in {} |-> ""],
   [status |-> "resolved"],
   [status |-> "bogus"],
   [title |-> <<" ">>],
   [title |-> <<" ", "n">>],
   [priority |-> "urgent"],
   [owner_sub |-> "C"]}

\* PUT /api/issues/<issue_id>: the scan for the issue of that id
UpdateIssueStart(r) ==
  /\ Authenticated(r)
  /\ \E sub \in Subjects, issue_id \in IssueIds, data \in scope.updateBodies, db_ok \in Outcomes :
       LET q == NewRequest("update_issue", [sub |-> sub, issue_id |-> issue_id, data |-> data])
           items == IssuesById(issue_id) IN
       IF DOMAIN data = {}
       THEN Set(r, Respond(q, 400, "No data provided", <<>>))
       ELSE IF ~db_ok
       THEN Set(r, Respond(Called(q, FALSE), 500, "Database error occurred", <<>>))
       ELSE IF items = {}
       THEN Set(r, Respond(q, 404, "Issue not found", <<>>))
       ELSE \E current_issue \in items :
              Set(r, Goto(q, "check_access", [key |-> IssueKey(current_issue)]))
  /\ UNCHANGED <<scope, deleted, projects, permissions, issues, objects, issuedIds, now>>

\* the first whitelisted field of the body that is not valid, "" when all are
UpdateError(data) ==
  IF Has(data, "title") /\ Strip(data.title) = <<>> THEN "title cannot be empty"
  ELSE IF Has(data, "description") /\ Strip(data.description) = <<>>
  THEN "description cannot be empty"
  ELSE IF Has(data, "status") /\ data.status \notin STATUSES
  THEN "Status must be 'open', 'in-progress', or 'resolved'"
  ELSE IF Has(data, "priority") /\ data.priority \notin PRIORITIES
  THEN "Priority must be 'low', 'medium', or 'high'"
  ELSE ""

\* a variant that sets every field of the body, whitelisted or not
UpdateExpressionAll(data, updated_at) ==
  [f \in DOMAIN data \cup {"updatedAt"} |->
     IF f = "updatedAt" THEN updated_at
     ELSE IF f \in {"title", "description"} THEN Strip(data[f])
     ELSE data[f]]

\* SET updatedAt = :updated_at and every whitelisted field of the body
UpdateExpression(data, updated_at) ==
  [f \in (DOMAIN data \cap {"title", "description", "status", "priority"}) \cup {"updatedAt"} |->
     IF f = "updatedAt" THEN updated_at
     ELSE IF f \in {"title", "description"} THEN Strip(data[f])
     ELSE data[f]]

\* the access check on the issue's project, then the update expression
UpdateIssueCheck(r) ==
  /\ At(r, "update_issue", "check_access")
  /\ \E scan_ok \in Outcomes :
       IF ~user_has_project_access(reqs[r].args.sub, reqs[r].loc.key[1], scan_ok)
       THEN /\ Set(r, Respond(Called(reqs[r], scan_ok), 403, "Access denied to this issue", <<>>))
            /\ UNCHANGED now
       ELSE /\ ReadClock
            /\ IF UpdateError(reqs[r].args.data) # ""
               THEN Set(r, Respond(reqs[r], 400, UpdateError(reqs[r].args.data), <<>>))
               ELSE Set(r, Goto(reqs[r], "update_item",
                                [key |-> reqs[r].loc.key,
                                 set |-> UpdateExpression(reqs[r].args.data, now)]))
  /\ UNCHANGED <<scope, deleted, projects, permissions, issues, objects, issuedIds>>

\* a variant that writes the row whole: the key and the attributes set
UpdatedRowReplacing(table, key, set) ==
  [f \in {"projectId", "sortKey"} \cup DOMAIN set |->
     IF f \in DOMAIN set THEN set[f] ELSE IF f = "projectId" THEN key[1] ELSE key[2]]

\* update_item(Key, SET ...): the row of that key with the attributes set; a
\* key that has no row gets one, made of the key and the attributes set
UpdatedRow(table, key, set) ==
  LET old == {i \in table : IssueKey(i) = key}
      base == IF old = {} THEN [projectId |-> key[1], sortKey |-> key[2]]
              ELSE CHOOSE i \in old : TRUE
  IN [f \in DOMAIN base \cup DOMAIN set |-> IF f \in DOMAIN set THEN set[f] ELSE base[f]]

\* issues_table.update_item(..., ReturnValues='ALL_NEW')
UpdateIssueWrite(r) ==
  /\ At(r, "update_issue", "update_item")
  /\ \E db_ok \in Outcomes :
       IF ~db_ok
       THEN /\ Set(r, Respond(Called(reqs[r], FALSE), 500, "Database error occurred", <<>>))
            /\ UNCHANGED issues
       ELSE LET row == UpdatedRow(issues, reqs[r].loc.key, reqs[r].loc.set)
                prior == {i \in issues : IssueKey(i) = reqs[r].loc.key} IN
            /\ issues' = PutIssue(issues, row)
            /\ Set(r, Respond(Wrote(Replaced(reqs[r], prior), "issue"), 200, "", <<row>>))
  /\ UNCHANGED <<scope, deleted, projects, permissions, objects, issuedIds, now>>

\* DELETE /api/issues/<issue_id>: the scan for the issue of that id
DeleteIssueStart(r) ==
  /\ Authenticated(r)
  /\ \E sub \in Subjects, issue_id \in IssueIds, db_ok \in Outcomes :
       LET q == NewRequest("delete_issue", [sub |-> sub, issue_id |-> issue_id])
           items == IssuesById(issue_id) IN
       IF ~db_ok
       THEN Set(r, Respond(Called(q, FALSE), 500, "Database error occurred", <<>>))
       ELSE IF items = {}
       THEN Set(r, Respond(q, 404, "Issue not found", <<>>))
       ELSE \E current_issue \in items :
              Set(r, Goto(q, "check_access", [key |-> IssueKey(current_issue)]))
  /\ UNCHANGED <<scope, deleted, projects, permissions, issues, objects, issuedIds, now>>

\* a variant that hides the issue from a caller without access
DeleteIssueCheckHiding(r) ==
  /\ At(r, "delete_issue", "check_access")
  /\ \E scan_ok \in Outcomes :
       IF ~user_has_project_access(reqs[r].args.sub, reqs[r].loc.key[1], scan_ok)
       THEN Set(r, Respond(Called(reqs[r], scan_ok), 404, "Issue not found", <<>>))
       ELSE Set(r, Goto(reqs[r], "delete_item", reqs[r].loc))
  /\ UNCHANGED <<scope, deleted, projects, permissions, issues, objects, issuedIds, now>>

\* the access check on the issue's project
DeleteIssueCheck(r) ==
  /\ At(r, "delete_issue", "check_access")
  /\ \E scan_ok \in Outcomes :
       IF ~user_has_project_access(reqs[r].args.sub, reqs[r].loc.key[1], scan_ok)
       THEN Set(r, Respond(Called(reqs[r], scan_ok), 403, "Access denied to this issue", <<>>))
       ELSE Set(r, Goto(reqs[r], "delete_item", reqs[r].loc))
  /\ UNCHANGED <<scope, deleted, projects, permissions, issues, objects, issuedIds, now>>

\* issues_table.delete_item(Key)
DeleteIssueWrite(r) ==
  /\ At(r, "delete_issue", "delete_item")
  /\ \E db_ok \in Outcomes :
       IF ~db_ok
       THEN /\ Set(r, Respond(Called(reqs[r], FALSE), 500, "Database error occurred", <<>>))
            /\ UNCHANGED <<issues, deleted>>
       ELSE /\ issues' = {i \in issues : IssueKey(i) # reqs[r].loc.key}
            /\ deleted' = deleted \cup {reqs[r].loc.key}
            /\ Set(r, Respond(Wrote(reqs[r], "issue"), 200, "Issue deleted successfully", <<>>))
  /\ UNCHANGED <<scope, projects, permissions, objects, issuedIds, now>>

\* the query parameters of GET /api/issues
IssueFilters(pids) ==
  {[e \in {} |-> ""], [status |-> "open"]} \cup {[projectId |-> p] : p \in pids}

\* request.args.get(name) as a condition: the parameter is there and not
\* empty (an objectId is text, a status or a priority one of a few words)
Given(flt, name) ==
  Has(flt, name) /\ flt[name] # (IF name = "objectId" THEN <<>> ELSE "")

\* a variant that keeps the rows that match the status or the priority
IssuesResponseEither(q, rows) ==
  LET flt == q.args.flt
      s1 == IF Given(flt, "status") THEN FilterSeq(rows, "status", flt.status) ELSE <<>>
      s2 == IF Given(flt, "priority") THEN FilterSeq(rows, "priority", flt.priority) ELSE <<>>
      s3 == IF Given(flt, "status") /\ Given(flt, "priority")
            THEN SelectSeqBy(rows, Range(s1) \cup Range(s2))
            ELSE IF Given(flt, "status") THEN s1
            ELSE IF Given(flt, "priority") THEN s2 ELSE rows
      s4 == IF Given(flt, "objectId") THEN FilterSeq(s3, "objectId", flt.objectId) ELSE s3
  IN Respond(q, 200, "", SortByCreatedAtDesc(s4))

\* the filters in memory, the sort by createdAt, the 200
IssuesResponse(q, rows) ==
  LET flt == q.args.flt
      s1 == IF Given(flt, "status") THEN FilterSeq(rows, "status", flt.status) ELSE rows
      s2 == IF Given(flt, "priority") THEN FilterSeq(s1, "priority", flt.priority) ELSE s1
      s3 == IF Given(flt, "objectId") THEN FilterSeq(s2, "objectId", flt.objectId) ELSE s2
  IN Respond(q, 200, "", SortByCreatedAtDesc(s3))

\* GET /api/issues: which partitions to query
GetAllIssuesStart(r) ==
  /\ Authenticated(r)
  /\ \E sub \in Subjects, flt \in scope.filters, scan_ok \in Outcomes :
       LET q == NewRequest("get_all_issues", [sub |-> sub, flt |-> flt])
           rows == {p \in permissions : p.userId = sub} IN
       IF Has(flt, "projectId")
       THEN IF user_has_project_access(sub, flt.projectId, scan_ok)
            THEN Set(r, Goto(q, "query", [todo |-> <<flt.projectId>>, found |-> <<>>]))
            ELSE Set(r, IssuesResponse(Called(q, scan_ok), <<>>))
       ELSE IF ~scan_ok
       THEN Set(r, Respond(Called(q, FALSE), 500, "Database error occurred", <<>>))
       ELSE IF rows = {}
       THEN Set(r, IssuesResponse(q, <<>>))
       ELSE \E order \in Orderings(rows) :
              Set(r, Goto(q, "query",
                          [todo |-> [i \in DOMAIN order |-> order[i].projectId],
                           found |-> <<>>]))
  /\ UNCHANGED <<scope, deleted, projects, permissions, issues, objects, issuedIds, now>>

\* issues_table.query(projectId = ..., ScanIndexForward=False), one partition a step
GetAllIssuesQuery(r) ==
  /\ At(r, "get_all_issues", "query")
  /\ \E db_ok \in Outcomes :
       LET project_id == Head(reqs[r].loc.todo)
           found == reqs[r].loc.found \o
                    QueryDescending({i \in issues : i.projectId = project_id}) IN
       IF ~db_ok
       THEN Set(r, Respond(Called(reqs[r], FALSE), 500, "Database error occurred", <<>>))
       ELSE IF Tail(reqs[r].loc.todo) = <<>>
       THEN Set(r, IssuesResponse(reqs[r], found))
       ELSE Set(r, Goto(reqs[r], "query", [todo |-> Tail(reqs[r].loc.todo), found |-> found]))
  /\ UNCHANGED <<scope, deleted, projects, permissions, issues, objects, issuedIds, now>>

\* GET /api/debug/issues: a scan of the whole table
DebugAllIssues(r) ==
  /\ Authenticated(r)
  /\ \E sub \in Subjects, db_ok \in Outcomes, order \in Orderings(issues) :
       LET q == NewRequest("debug_all_issues", [sub |-> sub]) IN
       IF ~db_ok
       THEN Set(r, Respond(Called(q, FALSE), 500, "scan failed", <<>>))
       ELSE Set(r, Respond(q, 200, "", order))
  /\ UNCHANGED <<scope, deleted, projects, permissions, issues, objects, issuedIds, now>>

------------------------------------------------------------------------

-----------------------------------------------------------------------------
(* Specifications *)

NoBodies == {[e \in {} |-> ""]}

\* Projects and permissions, from the empty store.
ProjectScope(slots, faults, creators, maxProjects) ==
  [slots |-> slots, faults |-> faults, creators |-> creators,
   maxProjects |-> maxProjects, projectIds |-> 1..maxProjects,
   emails |-> Emails, maxIssues |-> 0, maxClock |-> 0,
   tokens |-> BadTokens, keys |-> TRUE,
   issueBodies |-> NoBodies, updateBodies |-> NoBodies, filters |-> NoBodies]

\* one request at a time, every call may fail; or two at a time, no call fails
InitProjects ==
  /\ EmptyStore
  /\ scope \in {ProjectScope({1}, TRUE, Creators, MaxProjects),
                ProjectScope(Slots, FALSE, {"A"}, MaxProjects - 1)}

ProjectActions(r) ==
  \/ CreateProjectStart(r)
  \/ CreateProjectUpload(r)
  \/ CreateProjectPutProject(r)
  \/ CreateProjectPutPermission(r)
  \/ InviteStart(r)
  \/ InviteScan(r)
  \/ InvitePut(r)

ProjectReads(r) ==
  \/ GetProjectStart(r)
  \/ GetProjectItem(r)
  \/ GetProjectsStart(r)
  \/ GetProjectsBatch(r)

Next == \E r \in Slots : Return(r) \/ ProjectActions(r) \/ ProjectReads(r)

Init == InitProjects

Spec == Init /\ [][Next]_vars

\* Issues, from a store the handlers above have filled: A owns project 1 and
\* has invited B, C owns project 2 (EstablishedReached below).
ProjectOf(id, owner) ==
  [projectId |-> id, projectName |-> "Tower", modelKey |-> id, ownerId |-> owner,
   createdAt |-> 0]

PermissionOf(id, user, role) ==
  [permissionId |-> <<id, user, 1>>, projectId |-> id, userId |-> user, role |-> role]

EstablishedStore ==
  /\ projects = {ProjectOf(1, "A"), ProjectOf(2, "C")}
  /\ permissions = {PermissionOf(1, "A", "owner"), PermissionOf(2, "C", "owner"),
                    PermissionOf(1, "B", "collaborator")}
  /\ objects = {1, 2}
  /\ issues = {}
  /\ issuedIds = {}
  /\ deleted = {}
  /\ now = 0
  /\ reqs = [r \in Slots |-> Idle]

IssueScope(slots, faults, maxIssues, pids, issueBodies, updateBodies) ==
  [slots |-> slots, faults |-> faults, creators |-> {},
   maxProjects |-> 0, projectIds |-> pids, emails |-> {},
   tokens |-> BadTokens, keys |-> TRUE,
   maxIssues |-> maxIssues, maxClock |-> 0,
   issueBodies |-> issueBodies, updateBodies |-> updateBodies,
   filters |-> IssueFilters(pids)]

\* one request at a time, every call may fail, on the three project ids (the
\* third has no project); or two at a time on project 1, no call fails
InitIssues ==
  /\ EstablishedStore
  /\ scope \in {IssueScope({1}, TRUE, MaxIssues, 1..3, IssueBodies(1..3), UpdateBodies),
                IssueScope(Slots, FALSE, MaxIssues, {1}, {ValidIssue(1)},
                           {[status |-> "resolved"], [title |-> <<" ", "n">>]})}

IssueActions(r) ==
  \/ CreateIssueStart(r)
  \/ CreateIssuePut(r)
  \/ UpdateIssueStart(r)
  \/ UpdateIssueCheck(r)
  \/ UpdateIssueWrite(r)
  \/ DeleteIssueStart(r)
  \/ DeleteIssueCheck(r)
  \/ DeleteIssueWrite(r)

IssueReads(r) ==
  \/ GetAllIssuesStart(r)
  \/ GetAllIssuesQuery(r)
  \/ DebugAllIssues(r)
  \/ GetProjectStart(r)
  \/ GetProjectItem(r)

NextIssues == \E r \in Slots : Return(r) \/ IssueActions(r) \/ IssueReads(r)

SpecIssues == InitIssues /\ [][NextIssues]_vars

\* Concurrent invitations to the projects of the store above.
InitInvite ==
  /\ EstablishedStore
  /\ scope = [ProjectScope(Slots, TRUE, {}, 0) EXCEPT !.projectIds = 1..2]

NextInvite == \E r \in Slots : Return(r) \/ InviteStart(r) \/ InviteScan(r) \/ InvitePut(r)

SpecInvite == InitInvite /\ [][NextInvite]_vars

\* Every handler that writes, one request at a time, every call may fail.
InitWrites ==
  \/ /\ EmptyStore
     /\ scope = ProjectScope({1}, TRUE, Creators, MaxProjects)
  \/ /\ EstablishedStore
     /\ scope = IssueScope({1}, TRUE, MaxIssues, 1..3, IssueBodies(1..3), UpdateBodies)

NextWrites ==
  \E r \in Slots : Return(r) \/ Unauthenticated(r) \/ ProjectActions(r) \/ IssueActions(r)

SpecWrites == InitWrites /\ [][NextWrites]_vars

\* Updates of one issue, two requests at a time, the clock running.
InitUpdates ==
  /\ EstablishedStore
  /\ scope = [IssueScope(Slots, FALSE, MaxIssues, {1}, {ValidIssue(1)},
                         {[status |-> "resolved"], [title |-> <<" ", "n">>]})
                EXCEPT !.maxClock = MaxClock]

NextUpdates ==
  \E r \in Slots :
    \/ Return(r)
    \/ CreateIssueStart(r)
    \/ CreateIssuePut(r)
    \/ UpdateIssueStart(r)
    \/ UpdateIssueCheck(r)
    \/ UpdateIssueWrite(r)

SpecUpdates == InitUpdates /\ [][NextUpdates]_vars

\* Creating and listing issues, one request at a time, the clock running:
\* as many issues as the clock has readings.
InitListing ==
  /\ EstablishedStore
  /\ scope = [IssueScope({1}, TRUE, MaxClock, 1..2, {ValidIssue(1), ValidIssue(2)}, NoBodies)
                EXCEPT !.maxClock = MaxClock]

NextListing ==
  \E r \in Slots :
    \/ Return(r)
    \/ CreateIssueStart(r)
    \/ CreateIssuePut(r)
    \/ GetAllIssuesStart(r)
    \/ GetAllIssuesQuery(r)

SpecListing == InitListing /\ [][NextListing]_vars

\* Invitations to project 2 and the requests that pass the access check on
\* it: one request at a time, every call may fail; or two at a time.
GrantScope(slots, faults) ==
  [IssueScope(slots, faults, MaxIssues, {2}, {ValidIssue(2)}, {[status |-> "resolved"]})
     EXCEPT !.emails = {"b@x.com"}]

InitGrant ==
  /\ EstablishedStore
  /\ scope \in {GrantScope({1}, TRUE), GrantScope(Slots, FALSE)}

NextGrant ==
  \E r \in Slots :
    \/ Return(r)
    \/ InviteStart(r) \/ InviteScan(r) \/ InvitePut(r)
    \/ GetProjectStart(r) \/ GetProjectItem(r)
    \/ GetAllIssuesStart(r) \/ GetAllIssuesQuery(r)
    \/ IssueActions(r)

SpecGrant == InitGrant /\ [][NextGrant]_vars

\* Creating, sharing and listing projects from the empty store, the clock
\* running: one request at a time, every call may fail; or two at a time.
CatalogueScope(slots, faults, maxProjects) ==
  [ProjectScope(slots, faults, {"A"}, maxProjects)
     EXCEPT !.emails = {"b@x.com"}, !.maxClock = MaxClock]

InitCatalogue ==
  /\ EmptyStore
  /\ scope \in {CatalogueScope({1}, TRUE, MaxProjects),
                CatalogueScope(Slots, FALSE, MaxProjects - 1)}

NextCatalogue ==
  \E r \in Slots :
    \/ Return(r)
    \/ ProjectActions(r)
    \/ GetProjectsStart(r) \/ GetProjectsBatch(r)

SpecCatalogue == InitCatalogue /\ [][NextCatalogue]_vars

\* Listing the issues of every project of the caller: B is invited to
\* project 2, issues of both projects are created and resolved, one request
\* at a time, the clock running.
ListAllFilters ==
  {[e \in {} |-> ""], [status |-> "open"], [status |-> ""], [priority |-> "high"],
   [status |-> "open", priority |-> "high"],
   [status |-> "resolved", objectId |-> <<"w">>], [objectId |-> <<"v">>]}

ListAllScope ==
  [IssueScope({1}, FALSE, MaxIssues + 1, 1..2,
              {ValidIssue(1), With(ValidIssue(2), "priority", "high")},
              {[status |-> "resolved"]})
     EXCEPT !.emails = {"b@x.com"}, !.maxClock = MaxClock, !.filters = ListAllFilters]

InitListAll == EstablishedStore /\ scope = ListAllScope

NextListAll ==
  \E r \in Slots :
    \/ Return(r)
    \/ InviteStart(r) \/ InviteScan(r) \/ InvitePut(r)
    \/ CreateIssueStart(r) \/ CreateIssuePut(r)
    \/ UpdateIssueStart(r) \/ UpdateIssueCheck(r) \/ UpdateIssueWrite(r)
    \/ GetAllIssuesStart(r) \/ GetAllIssuesQuery(r)

SpecListAll == InitListAll /\ [][NextListAll]_vars

\* Every kind of credential, with the JWKS fetched at start-up (auth.py
\* 18-24) or not; where it was not fetched no handler is ever entered.
AuthScope(keys) ==
  [IssueScope({1}, FALSE, MaxIssues, {1}, {ValidIssue(1)}, {[status |-> "resolved"]})
     EXCEPT !.tokens = Tokens, !.keys = keys]

InitAuth == EstablishedStore /\ scope \in {AuthScope(keys) : keys \in BOOLEAN}

NextAuth ==
  \E r \in Slots :
    \/ Return(r)
    \/ Unauthenticated(r)
    \/ IssueActions(r)

SpecAuth == InitAuth /\ [][NextAuth]_vars

-----------------------------------------------------------------------------
(* Properties *)

Done(r) == reqs[r].pc = "done"

Started(r) == reqs[r].pc # "idle" /\ Has(reqs[r].args, "sub")

NoRow(user_sub, project_id) == PermissionRows(project_id, user_sub) = {}

\* the request wrote nothing; when requests do not overlap, the three tables
\* and the bucket are as the request found them
Untouched(r) ==
  /\ reqs[r].writes = <<>>
  /\ Sequential => reqs[r].before = <<stores>>

\* the permissions table as a request found it (requests not overlapping)
PermissionsBefore(r) == reqs[r].before[1][2]

ProjectsBefore(r) == reqs[r].before[1][1]

ObjectsBefore(r) == reqs[r].before[1][4]

\* C1: a subject without a Permission row on a project is listed no issue of
\* it, is given no data of it by get_project, and its update or delete of an
\* issue of it ends in 403 before the write, the tables left as they were.
AccessGated ==
  \A r \in Slots :
    LET q == reqs[r] IN
    /\ (q.op = "get_all_issues" /\ Done(r)) =>
         \A i \in DOMAIN q.body : ~NoRow(q.args.sub, q.body[i].projectId)
    /\ (q.op = "get_project" /\ Done(r) /\ NoRow(q.args.sub, q.args.project_id)) =>
         q.code = 404 /\ q.body = <<>>
    /\ (q.op \in {"update_issue", "delete_issue"} /\ Has(q.loc, "key")
          /\ NoRow(q.args.sub, q.loc.key[1])) =>
         /\ q.pc \in {"check_access", "done"}
         /\ Untouched(r)
         /\ Done(r) => q.code = 403

DeniedUpdate ==
  \E r \in Slots :
    /\ reqs[r].op = "update_issue" /\ Done(r) /\ reqs[r].code = 403
    /\ Has(reqs[r].loc, "key")
    /\ NoRow(reqs[r].args.sub, reqs[r].loc.key[1])
    /\ \E i \in issues : IssueKey(i) = reqs[r].loc.key

\* C2: the permissions table holds at most one row per (projectId, userId),
\* whatever the interleaving of the invitations.
OnePermissionPerPair ==
  \A project_id \in ProjectIds, user_sub \in Subjects :
    Cardinality(PermissionRows(project_id, user_sub)) <= 1

\* C3: with one request after the other, an invitation of a subject that has
\* no row on the project writes exactly one collaborator row when it succeeds,
\* an invitation of a subject that has a row is refused (400) and writes
\* nothing, and no pair ever has two rows.
SecondInviteConflicts ==
  Sequential =>
    /\ OnePermissionPerPair
    /\ \A r \in Slots :
         LET q == reqs[r] IN
         (q.op = "invite" /\ Done(r) /\ Has(q.loc, "invitee_sub")) =>
           LET had == {p \in PermissionsBefore(r) :
                         p.projectId = q.args.project_id /\ p.userId = q.loc.invitee_sub}
               has == PermissionRows(q.args.project_id, q.loc.invitee_sub) IN
           /\ q.code \in {200, 400, 500}
           /\ (had = {}) => q.code \in {200, 500}
           /\ (had # {}) => q.code \in {400, 500}
           /\ (q.code = 200) =>
                /\ q.writes = <<"permission">>
                /\ Cardinality(has) = 1
                /\ \A p \in has : p.role = "collaborator"
                /\ permissions = PermissionsBefore(r) \cup has
           /\ (q.code # 200) => Untouched(r)

InvitedTwice ==
  \E r \in Slots :
    /\ Sequential
    /\ reqs[r].op = "invite" /\ Done(r) /\ reqs[r].code = 400
    /\ reqs[r].msg = "is already invited to this project"
    /\ is_owner(reqs[r].args.sub, reqs[r].args.project_id)
    /\ \E p \in PermissionRows(reqs[r].args.project_id, reqs[r].loc.invitee_sub) :
         p.role = "collaborator"

\* C4: an invitation by a subject that is not the ownerId of the project (or
\* to a project that does not exist) is answered at once, writes nothing, and
\* is answered 403 whenever the lookup of the project itself did not fail
\* (a failed lookup is the store failure, 500).
NonOwnerInviteForbidden ==
  \A r \in Slots :
    LET q == reqs[r] IN
    (q.op = "invite" /\ Started(r)
       /\ \A p \in projects : p.projectId = q.args.project_id => p.ownerId # q.args.sub) =>
      /\ Done(r)
      /\ Untouched(r)
      /\ q.code \in {403, 500}
      /\ (q.code = 500) => q.msg = "Database error" /\ scope.faults

CollaboratorInviteForbidden ==
  \E r \in Slots :
    /\ reqs[r].op = "invite" /\ Done(r) /\ reqs[r].code = 403
    /\ \E p \in PermissionRows(reqs[r].args.project_id, reqs[r].args.sub) :
         p.role = "collaborator"
    /\ ~is_owner(reqs[r].args.sub, reqs[r].args.project_id)

\* C5: while no create_project is in progress, every project has exactly one
\* Permission row of role owner, and it is the row of its ownerId.
EveryProjectHasItsOwnerRow ==
  (\A r \in Slots : ~(reqs[r].op = "create_project" /\ Busy(r))) =>
    \A p \in projects :
      LET owners == {q \in permissions : q.projectId = p.projectId /\ q.role = "owner"} IN
      /\ Cardinality(owners) = 1
      /\ \A q \in owners : q.userId = p.ownerId

\* C6: a create_project that wrote the object and the project and no more
\* answered 500 and left the project in the table without any Permission row,
\* the object in the bucket and nothing else changed; get_project answers 404
\* to the owner of a project it has no row on; get_projects lists a caller no
\* project it has no row on.
OrphanProjectStays ==
  \A r \in Slots :
    LET q == reqs[r] IN
    /\ (q.op = "create_project" /\ Done(r) /\ q.writes = <<"object", "project">>) =>
         /\ q.code = 500
         /\ q.loc.project \in projects
         /\ q.loc.project.modelKey \in objects
         /\ Sequential =>
              /\ \A p \in permissions : p.projectId # q.loc.project.projectId
              /\ projects = ProjectsBefore(r) \cup {q.loc.project}
              /\ q.loc.project \notin ProjectsBefore(r)
              /\ permissions = PermissionsBefore(r)
              /\ objects = ObjectsBefore(r) \cup {q.loc.project.modelKey}
    /\ (q.op = "create_project" /\ Done(r) /\ q.code = 500) =>
         "permission" \notin Range(q.writes)
    /\ (q.op = "get_project" /\ Done(r) /\ NoRow(q.args.sub, q.args.project_id)
          /\ is_owner(q.args.sub, q.args.project_id)) =>
         q.code = 404 /\ q.body = <<>>
    /\ (q.op = "get_projects" /\ Done(r)) =>
         \A i \in DOMAIN q.body : ~NoRow(q.args.sub, q.body[i].projectId)

OrphanNotFound ==
  \E r \in Slots :
    /\ reqs[r].op = "get_project" /\ Done(r) /\ reqs[r].code = 404
    /\ is_owner(reqs[r].args.sub, reqs[r].args.project_id)
    /\ \A p \in permissions : p.projectId # reqs[r].args.project_id

\* C7: a create_project whose upload failed answered 500 and wrote nothing,
\* the tables and the bucket as it found them; and no project record is ever
\* there without its object.
FailedUploadWritesNothing ==
  /\ \A r \in Slots :
       (reqs[r].op = "create_project" /\ Done(r) /\ reqs[r].msg = "Failed to upload model") =>
         reqs[r].code = 500 /\ Untouched(r)
  /\ \A r \in Slots :
       (reqs[r].op = "create_project" /\ "project" \in Range(reqs[r].writes)) =>
         reqs[r].writes[1] = "object"
  /\ \A p \in projects : p.modelKey \in objects

UploadFailed ==
  \E r \in Slots :
    /\ reqs[r].op = "create_project" /\ Done(r)
    /\ reqs[r].msg = "Failed to upload model"
    /\ projects # {}

\* C8: get_project by a subject without a Permission row on the id has one
\* response, 404 with one message and no data, whether the project exists
\* or not.
DenialLooksLikeAbsence ==
  \A r \in Slots :
    (reqs[r].op = "get_project" /\ Done(r)
       /\ NoRow(reqs[r].args.sub, reqs[r].args.project_id)) =>
      <<reqs[r].code, reqs[r].msg, reqs[r].body>> =
        <<404, "Project not found or access denied", <<>>>>

DeniedExistingProject ==
  \E r \in Slots :
    /\ reqs[r].op = "get_project" /\ Done(r)
    /\ NoRow(reqs[r].args.sub, reqs[r].args.project_id)
    /\ ProjectItem(reqs[r].args.project_id) # {}
    /\ ~is_owner(reqs[r].args.sub, reqs[r].args.project_id)

\* C9: no response of any endpoint holds an issue of a project the caller has
\* no Permission row on.
IssuesOnlyToMembers ==
  \A r \in Slots :
    (Done(r) /\ Has(reqs[r].args, "sub")
       /\ reqs[r].op \in {"get_all_issues", "debug_all_issues", "create_issue", "update_issue"}) =>
      \A i \in DOMAIN reqs[r].body : ~NoRow(reqs[r].args.sub, reqs[r].body[i].projectId)

\* C10: a request answered 400, 401, 403 or 404 wrote nothing: the three
\* tables and the bucket are as the request found them.
ErrorsLeaveStoresUnchanged ==
  \A r \in Slots :
    (Done(r) /\ reqs[r].code \in {400, 401, 403, 404}) =>
      /\ reqs[r].writes = <<>>
      /\ reqs[r].before = <<stores>>

RejectedUpdate ==
  \E r \in Slots :
    /\ reqs[r].op = "update_issue" /\ Done(r) /\ reqs[r].code = 400
    /\ Has(reqs[r].loc, "key")
    /\ \E i \in issues : IssueKey(i) = reqs[r].loc.key

\* C11: the updatedAt that a successful update stores and returns is later
\* than the updatedAt of the row it replaced.
UpdatedAtAdvances ==
  \A r \in Slots :
    (reqs[r].op = "update_issue" /\ Done(r) /\ reqs[r].code = 200) =>
      \A p \in reqs[r].loc.prior :
        /\ reqs[r].body[1].updatedAt > p.updatedAt
        /\ \A i \in issues : IssueKey(i) = IssueKey(p) => i.updatedAt > p.updatedAt

IssuesBefore(r) == reqs[r].before[1][3]

\* C12: a successful update of a row changes updatedAt and those of title,
\* description, status and priority that the body holds, to the (trimmed)
\* values of the body; every other attribute of the row, and every other
\* row, is as it was, whatever else the body names.
UpdateChangesOnlyNamed ==
  \A r \in Slots :
    (reqs[r].op = "update_issue" /\ Done(r) /\ reqs[r].code = 200) =>
      \A p \in reqs[r].loc.prior :
        LET data == reqs[r].args.data
            row == reqs[r].body[1]
            named == DOMAIN data \cap {"title", "description", "status", "priority"} IN
        /\ row \in issues
        /\ DOMAIN row = DOMAIN p \cup named \cup {"updatedAt"}
        /\ \A f \in DOMAIN p \ (named \cup {"updatedAt"}) : row[f] = p[f]
        /\ \A f \in named :
             row[f] = IF f \in {"title", "description"} THEN Strip(data[f]) ELSE data[f]
        /\ Sequential => issues = (IssuesBefore(r) \ {p}) \cup {row}

UpdateNamedOwner ==
  \E r \in Slots :
    /\ reqs[r].op = "update_issue" /\ Done(r) /\ reqs[r].code = 200
    /\ Has(reqs[r].args.data, "owner_sub")
    /\ \E p \in reqs[r].loc.prior :
         /\ p.owner_sub # reqs[r].args.data.owner_sub
         /\ reqs[r].body[1].owner_sub = p.owner_sub

\* C13: the issues table never again holds a row of a key whose delete has
\* answered success.
DeletedStaysDeleted ==
  \A i \in issues : IssueKey(i) \notin deleted

\* C14: every row of the issues table has an id, a title, a description and
\* an author that are trimmed and not empty, a priority among low, medium,
\* high and a status among open, in-progress, resolved.
IssueRowsValid ==
  \A i \in issues :
    /\ Has(i, "id")
    /\ \A f \in {"title", "description", "author"} :
         Has(i, f) /\ i[f] # <<>> /\ Strip(i[f]) = i[f]
    /\ Has(i, "priority") /\ i.priority \in PRIORITIES
    /\ Has(i, "status") /\ i.status \in STATUSES

\* a create_issue whose body has every required field, and a title of blanks
\* or a priority outside the enumeration
BadCreate(r) ==
  LET data == reqs[r].args.data IN
  /\ reqs[r].op = "create_issue"
  /\ \A f \in {"title", "description", "objectId", "author", "projectId"} : Has(data, f)
  /\ \/ Strip(data.title) = <<>>
     \/ Has(data, "priority") /\ data.priority \notin {"low", "medium", "high"}

\* C15 (as stated): a create_issue with a title of blanks, or a priority
\* outside the enumeration, is answered 400 and writes nothing, whoever the
\* caller and whatever the project.
BadCreateIs400 ==
  \A r \in Slots :
    BadCreate(r) => Done(r) /\ reqs[r].code = 400 /\ Untouched(r)

\* C15 (amended): such a create_issue is answered at once and writes nothing;
\* the answer is 400 when the caller passes the access check on the project
\* and 403 when it does not, the access check coming first.
BadCreateRejected ==
  \A r \in Slots :
    BadCreate(r) =>
      LET refused == NoRow(reqs[r].args.sub, reqs[r].args.project_id) \/ reqs[r].failed IN
      /\ Done(r)
      /\ Untouched(r)
      /\ reqs[r].code = IF refused THEN 403 ELSE 400

BlankTitleRejected ==
  \E r \in Slots :
    /\ BadCreate(r) /\ Done(r) /\ reqs[r].code = 400
    /\ reqs[r].args.data.title = <<" ">>
    /\ ~NoRow(reqs[r].args.sub, reqs[r].args.project_id)

\* C16: in one project no two issues have the same sortKey, and the issue
\* created later has the greater sortKey.
SortKeyChronological ==
  \A i, j \in issues :
    (i.projectId = j.projectId /\ i.createdAt < j.createdAt) =>
      SortKeyLess(i.sortKey, j.sortKey)

\* C17: the list of a project, asked by a subject with a Permission row on
\* it, holds the issues of the project (those the filter keeps), each once,
\* the later created before the earlier; so does the list of all projects
\* of the caller.
ListedNewestFirst ==
  \A r \in Slots :
    (reqs[r].op = "get_all_issues" /\ Done(r) /\ reqs[r].code = 200) =>
      LET flt == reqs[r].args.flt
          body == reqs[r].body IN
      /\ \A a, b \in DOMAIN body : a < b => body[a].createdAt > body[b].createdAt
      /\ (Has(flt, "projectId") /\ ~reqs[r].failed
            /\ ~NoRow(reqs[r].args.sub, flt.projectId)) =>
           Range(body) = {i \in issues : i.projectId = flt.projectId}

ListedAgainstIds ==
  \E r \in Slots :
    /\ reqs[r].op = "get_all_issues" /\ Done(r) /\ reqs[r].code = 200
    /\ Has(reqs[r].args.flt, "projectId")
    /\ Len(reqs[r].body) = 3
    /\ reqs[r].body[1].createdAt > reqs[r].body[2].createdAt
    /\ reqs[r].body[2].createdAt > reqs[r].body[3].createdAt
    /\ reqs[r].body[1].id < reqs[r].body[2].id
    /\ reqs[r].body[2].id < reqs[r].body[3].id

\* a request that the access check turned away
Denied(r) ==
  /\ Done(r)
  /\ \/ reqs[r].op = "get_project" /\ reqs[r].code = 404
          /\ reqs[r].msg = "Project not found or access denied"
     \/ reqs[r].op \in {"create_issue", "update_issue", "delete_issue"} /\ reqs[r].code = 403
     \/ reqs[r].op = "get_all_issues" /\ Has(reqs[r].args.flt, "projectId")
          /\ Range(reqs[r].body) # {i \in issues : i.projectId = reqs[r].args.flt.projectId}

\* the project whose access the request asks for
Asked(r) ==
  IF reqs[r].op \in {"update_issue", "delete_issue"} THEN reqs[r].loc.key[1]
  ELSE IF reqs[r].op = "get_all_issues" THEN reqs[r].args.flt.projectId
  ELSE reqs[r].args.project_id

\* C18: no step removes or alters a Permission row, and no request of a
\* subject that has a row on the project is turned away by the access check
\* (unless the scan of the check itself failed).
GrantsLast ==
  /\ [][permissions \subseteq permissions']_vars
  /\ [](\A r \in Slots :
          (Denied(r) /\ ~reqs[r].failed) => NoRow(reqs[r].args.sub, Asked(r)))

InviteePasses ==
  \E r \in Slots :
    /\ reqs[r].op = "create_issue" /\ Done(r) /\ reqs[r].code = 201
    /\ reqs[r].args.sub = "B"
    /\ \E p \in PermissionRows(reqs[r].args.project_id, "B") : p.role = "collaborator"
    /\ reqs[r].args.project_id = 2

\* C19: a request during which a call to a table failed is answered 500.
StoreFailureIs500 ==
  \A r \in Slots :
    (Done(r) /\ reqs[r].failed) => reqs[r].code = 500

\* C20: an invalid credential is answered 401 without the handler running
\* (no store read or written); 500 only when the key material is unavailable.
InvalidCredentialIs401 ==
  \A r \in Slots :
    (Done(r) /\ ~Has(reqs[r].args, "sub")) =>
      /\ reqs[r].writes = <<>>
      /\ ~reqs[r].failed
      /\ \/ reqs[r].code = 401
         \/ reqs[r].code = 500 /\ ~scope.keys

\* the projects a subject has a Permission row on
VisibleProjects(user_sub) == {p \in projects : ~NoRow(user_sub, p.projectId)}

\* C21: the list of projects succeeds whenever the tables answer; it holds
\* only projects the caller has a Permission row on, each once, the later
\* created first; a project whose link could not be generated is left out;
\* where requests do not overlap it holds every other visible project.
ProjectsListed ==
  \A r \in Slots :
    (reqs[r].op = "get_projects" /\ Done(r) /\ ~reqs[r].failed) =>
      LET body == reqs[r].body
          none == Get(reqs[r].loc, "no_link", {}) IN
      /\ reqs[r].code = 200
      /\ \A a, b \in DOMAIN body :
           a < b => body[a] # body[b] /\ body[a].createdAt >= body[b].createdAt
      /\ Range(body) \subseteq {WithModelUrl(p) : p \in VisibleProjects(reqs[r].args.sub) \ none}
      /\ Sequential =>
           Range(body) = {WithModelUrl(p) : p \in VisibleProjects(reqs[r].args.sub) \ none}

\* C22: get_project by a subject with a Permission row on the project, the
\* tables answering, returns the project with its link when the link is
\* generated, and 500 with no data of the project when it is not.
GetLinkOrFail ==
  \A r \in Slots :
    LET q == reqs[r] IN
    (q.op = "get_project" /\ Done(r) /\ ~q.failed
       /\ ~NoRow(q.args.sub, q.args.project_id)) =>
      IF Has(q.loc, "no_link")
      THEN q.code = 500 /\ q.body = <<>>
      ELSE /\ q.code = 200
           /\ Len(q.body) = 1
           /\ Without(q.body[1], "modelUrl") \in ProjectItem(q.args.project_id)
           /\ q.body[1].modelUrl = <<"url", q.body[1].modelKey>>

GetWithoutLink ==
  \E r \in Slots :
    /\ reqs[r].op = "get_project" /\ Done(r) /\ ~reqs[r].failed
    /\ ~NoRow(reqs[r].args.sub, reqs[r].args.project_id)
    /\ Has(reqs[r].loc, "no_link")
    /\ reqs[r].code = 500

\* an issue passes every filter that was given a value
Matches(flt, issue) ==
  \A name \in {"status", "priority", "objectId"} :
    Given(flt, name) => (Has(issue, name) /\ issue[name] = flt[name])

\* C23: get_all_issues without a projectId, the tables answering and no other
\* request in between, returns exactly the issues of the projects the caller
\* has a Permission row on that match every filter given, the later created
\* first.
AllVisibleListed ==
  \A r \in Slots :
    LET q == reqs[r] IN
    (q.op = "get_all_issues" /\ Done(r) /\ ~q.failed /\ ~Has(q.args.flt, "projectId")) =>
      /\ q.code = 200
      /\ Range(q.body) = {i \in issues : /\ ~NoRow(q.args.sub, i.projectId)
                                         /\ Matches(q.args.flt, i)}
      /\ \A a, b \in DOMAIN q.body : a < b => q.body[a].createdAt >= q.body[b].createdAt

ListedAcrossProjects ==
  \E r \in Slots :
    /\ reqs[r].op = "get_all_issues" /\ Done(r) /\ ~reqs[r].failed
    /\ reqs[r].args.flt = [status |-> "open", priority |-> "high"]
    /\ reqs[r].args.sub = "B"
    /\ Len(reqs[r].body) = 1
    /\ reqs[r].body[1].projectId = 2
    /\ \E i \in issues : i.projectId = 1 /\ i.status = "open" /\ i.priority = "medium"

\* C24: get_all_issues with a projectId the caller has no Permission row on
\* is answered with an error (403 or 404), not with a success.
ListDeniedIsError ==
  \A r \in Slots :
    LET q == reqs[r] IN
    (q.op = "get_all_issues" /\ Done(r) /\ ~q.failed /\ Has(q.args.flt, "projectId")
       /\ NoRow(q.args.sub, q.args.flt.projectId)) =>
      q.code \in {403, 404}

\* C25: an invite is checked in this order: the caller owns the project
\* (403), the body has an email (400), the email is of an account (404),
\* the account has no Permission row on the project (400); the Permission
\* is written only when all have passed, so an invite to an email without
\* an account writes none.
InviteChecksInOrder ==
  \A r \in Slots :
    LET q == reqs[r]
        known == Has(q.args.data, "email") /\ q.args.data.email \in DOMAIN Directory IN
    (q.op = "invite" /\ Done(r) /\ ~q.failed) =>
      /\ ~is_owner(q.args.sub, q.args.project_id) => q.code = 403
      /\ (is_owner(q.args.sub, q.args.project_id) /\ Has(q.args.data, "email") /\ ~known) =>
           \/ q.code = 404
           \/ q.code = 500 /\ q.msg = "Error checking user"
      /\ q.code = 400 =>
           \/ ~Has(q.args.data, "email")
           \/ known /\ ~NoRow(Directory[q.args.data.email], q.args.project_id)
      /\ q.writes # <<>> =>
           /\ q.writes = <<"permission">>
           /\ q.code = 200
           /\ is_owner(q.args.sub, q.args.project_id)
           /\ known
           /\ Sequential =>
                \A p \in PermissionsBefore(r) :
                  ~(p.projectId = q.args.project_id /\ p.userId = Directory[q.args.data.email])
      /\ q.code # 200 => q.writes = <<>>

UnknownInviteeNotFound ==
  \E r \in Slots :
    /\ reqs[r].op = "invite" /\ Done(r) /\ ~reqs[r].failed
    /\ is_owner(reqs[r].args.sub, reqs[r].args.project_id)
    /\ reqs[r].args.data = [email |-> "ghost@x.com"]
    /\ reqs[r].code = 404
    /\ reqs[r].writes = <<>>
    /\ Sequential /\ permissions = PermissionsBefore(r)

\* C26: an update or a delete of an issue that was found is refused with 403
\* exactly when the caller has no Permission row on the issue's project,
\* whatever the role of the row and whoever created the issue.
RowDecidesAccess ==
  \A r \in Slots :
    LET q == reqs[r] IN
    (q.op \in {"update_issue", "delete_issue"} /\ Done(r) /\ ~q.failed
       /\ Has(q.loc, "key")) =>
      (q.code = 403 <=> NoRow(q.args.sub, q.loc.key[1]))

OwnerDeletesCollaboratorsIssue ==
  \E r \in Slots :
    /\ reqs[r].op = "delete_issue" /\ Done(r) /\ reqs[r].code = 200
    /\ Sequential
    /\ is_owner(reqs[r].args.sub, reqs[r].loc.key[1])
    /\ \E i \in IssuesBefore(r) :
         /\ IssueKey(i) = reqs[r].loc.key
         /\ i.owner_sub # reqs[r].args.sub
         /\ \E p \in PermissionRows(i.projectId, i.owner_sub) : p.role = "collaborator"
    /\ \A i \in issues : IssueKey(i) # reqs[r].loc.key

\* C27: every row of the issues table names in owner_sub a subject with a
\* Permission row on the row's project, and a create_issue by a subject
\* without a Permission row on the project writes nothing.
IssuesCreatedByMembers ==
  /\ \A i \in issues : Has(i, "owner_sub") /\ ~NoRow(i.owner_sub, i.projectId)
  /\ \A r \in Slots :
       (reqs[r].op = "create_issue" /\ Done(r) /\ Has(reqs[r].args, "sub")
          /\ NoRow(reqs[r].args.sub, reqs[r].args.project_id)) =>
         reqs[r].writes = <<>> /\ reqs[r].code \in {400, 403}

\* an update or a delete that got as far as the scan for the issue: every
\* delete, and an update with a body that is not empty
Looked(r) ==
  /\ reqs[r].op \in {"update_issue", "delete_issue"}
  /\ Done(r) /\ Has(reqs[r].args, "sub") /\ ~reqs[r].failed
  /\ reqs[r].op = "update_issue" => DOMAIN reqs[r].args.data # {}

\* the answer of an update or a delete by whether the id matched an issue
\* and whether the caller has a Permission row on the issue's project
LookupThenAccess(r) ==
  LET q == reqs[r] IN
  /\ (Sequential /\ \A i \in IssuesBefore(r) : ~(Has(i, "id") /\ i.id = q.args.issue_id)) =>
       q.code = 404 /\ Untouched(r)
  /\ (Has(q.loc, "key") /\ NoRow(q.args.sub, q.loc.key[1])) =>
       q.code = 403 /\ Untouched(r)

\* C28 as stated: an update or a delete of an id that matches no issue is
\* answered 404 whoever calls, and one of an issue of a project the caller has
\* no Permission row on is answered 403; neither changes a table.
LookupBeforeAccess ==
  \A r \in Slots :
    (reqs[r].op \in {"update_issue", "delete_issue"} /\ Done(r)
       /\ Has(reqs[r].args, "sub") /\ ~reqs[r].failed) =>
      /\ LookupThenAccess(r)
      /\ (reqs[r].op = "update_issue" /\ ~Has(reqs[r].loc, "key")) => reqs[r].code = 404

\* C28, for every delete and every update with a body that is not empty: an
\* id that matches no issue is answered 404 whoever calls, an issue of a
\* project the caller has no Permission row on 403; neither changes a table.
LookupBeforeAccessWithBody ==
  \A r \in Slots : Looked(r) => LookupThenAccess(r)

DeniedDelete ==
  \E r \in Slots :
    /\ Looked(r) /\ reqs[r].op = "delete_issue" /\ reqs[r].code = 403
    /\ Has(reqs[r].loc, "key")
    /\ NoRow(reqs[r].args.sub, reqs[r].loc.key[1])
    /\ \E i \in issues : IssueKey(i) = reqs[r].loc.key /\ i.id = reqs[r].args.issue_id

\* C29: the list of get_all_issues without a projectId holds no issue twice.
EachIssueOnce ==
  \A r \in Slots :
    (reqs[r].op = "get_all_issues" /\ Done(r) /\ reqs[r].code = 200
       /\ ~Has(reqs[r].args.flt, "projectId")) =>
      \A a, b \in DOMAIN reqs[r].body : a # b => reqs[r].body[a] # reqs[r].body[b]

\* C30: every Permission row is of a project that is in the projects table,
\* and no step removes or changes a row of the projects table.
PermissionsOfProjects ==
  /\ [](\A p \in permissions : ProjectItem(p.projectId) # {})
  /\ [][projects \subseteq projects']_vars

InvitedToProject ==
  \E r \in Slots :
    /\ reqs[r].op = "invite" /\ Done(r) /\ reqs[r].code = 200
    /\ \E p \in permissions :
         /\ p.projectId = reqs[r].args.project_id
         /\ p.role = "collaborator"
         /\ ProjectItem(p.projectId) # {}
    /\ \E p \in permissions :
         p.projectId = reqs[r].args.project_id /\ p.role = "owner"

\* C31: the subject in a project's ownerId has no Permission row with the
\* role of collaborator on the project, and an invite of the owner to an
\* address of the owner's own account is answered 400, already invited.
OwnerNeverCollaborator ==
  /\ \A p \in projects :
       \A row \in PermissionRows(p.projectId, p.ownerId) : row.role # "collaborator"
  /\ \A r \in Slots :
       LET q == reqs[r] IN
       (q.op = "invite" /\ Done(r) /\ ~q.failed /\ Has(q.args, "sub")
          /\ is_owner(q.args.sub, q.args.project_id)
          /\ Has(q.args.data, "email") /\ q.args.data.email \in DOMAIN Directory
          /\ Directory[q.args.data.email] = q.args.sub
          /\ q.msg # "Error checking user") =>
         q.code = 400 /\ q.writes = <<>>

\* the fields an update may set
Whitelisted == {"title", "description", "status", "priority"}

\* C32: a successful update leaves in the stored row its values for the
\* fields it names and, for every other whitelisted field, the value the row
\* had at the write, whoever put it there and however the requests overlap;
\* and no step changes a whitelisted field of a row except the write of an
\* update that names the field. So of two overlapping updates of disjoint
\* fields both values are in the row when both have completed.
DisjointUpdatesBothTakeEffect ==
  /\ [](\A r \in Slots :
          (reqs[r].op = "update_issue" /\ Done(r) /\ reqs[r].code = 200) =>
            LET data == reqs[r].args.data
                row == reqs[r].body[1] IN
            /\ row \in issues
            /\ \A f \in Whitelisted \cap DOMAIN data :
                 Has(row, f)
                   /\ row[f] = (IF f \in {"title", "description"} THEN Strip(data[f]) ELSE data[f])
            /\ \A p \in reqs[r].loc.prior :
                 \A f \in (Whitelisted \cap DOMAIN p) \ DOMAIN data :
                   Has(row, f) /\ row[f] = p[f])
  /\ [][\A i \in issues, f \in Whitelisted :
          (Has(i, f) /\ \E j \in issues' : IssueKey(j) = IssueKey(i) /\ (~Has(j, f) \/ j[f] # i[f])) =>
            \E r \in Slots :
              /\ reqs[r].op = "update_issue" /\ reqs[r].pc = "update_item"
              /\ reqs[r].loc.key = IssueKey(i)
              /\ f \in DOMAIN reqs[r].loc.set
              /\ reqs'[r].pc = "done" /\ reqs'[r].code = 200]_vars

\* the update of the title checked access first and wrote last: the update
\* of the status ran in between, and the row holds both values
OverlappedUpdatesBothInRow ==
  \E r \in Slots :
    /\ reqs[r].op = "update_issue" /\ Done(r) /\ reqs[r].code = 200
    /\ DOMAIN reqs[r].args.data = {"title"}
    /\ \E p \in reqs[r].loc.prior :
         /\ p.status = "resolved"
         /\ p.updatedAt > reqs[r].body[1].updatedAt
         /\ p.title # reqs[r].body[1].title
    /\ \E i \in issues :
         /\ IssueKey(i) = reqs[r].loc.key
         /\ i.status = "resolved"
         /\ i.title = Strip(reqs[r].args.data.title)

====
